---- MODULE Spec2Model ----
(***************************************************************************)
(* Keepalived (backend/keepalived): the keepalive liveness monitor of      *)
(* sensu-go.  The orchestrator's Start / Stop, the recovery from the        *)
(* store, the worker pool (processKeepalives), the monitor sweeper and the  *)
(* Monitor callbacks HandleUpdate / HandleFailure, as one state machine in  *)
(* which every goroutine is a process that moves one shared-memory access   *)
(* at a time.                                                               *)
(***************************************************************************)
EXTENDS Integers, Sequences, FiniteSets, TLC

(***************************************************************************)
(* Bounds of the model and constants of the program.                       *)
(***************************************************************************)
\* k.handlerCount and the number of messages the bus delivers, in a run with
\* one worker
HandlerCount == 1
MaxMsgs == 1
\* k.handlerCount and the number of messages the bus delivers, in a run of the
\* worker pool
PoolHandlerCount == 2
PoolMsgs == 2
\* the clock (Unix seconds) runs from 1 to MaxNow
MaxNow == 2
\* capacity of keepaliveChan: make(chan interface{}, 10)
ChanCap == 10
\* time.Second as a time.Duration (nanoseconds)
Second == 1000000000

None == "none"
\* the store holds no FailingKeepaliveRecord for the entity
NoRecord == -1
\* no keepalive event was published on event-raw for the entity
NoStatus == -1

Entities == {"a1", "a2"}
\* Entity.KeepaliveTimeout values (seconds) carried by valid keepalives
Timeouts == {1, 2}
\* FailingKeepaliveRecord.Time values the store may hold at boot
RecordTimes == {0, 3}

\* the class of an entity: a1 is an agent, a2 is not
EntityClass(id) == IF id = "a1" THEN "agent" ELSE "proxy"

\* the Deregister flag of an entity: a2 asks to be deregistered, a1 does not
EntityDeregister(id) == id = "a2"

\* an entity value as the code reads it (ID, Class, KeepaliveTimeout, Deregister)
Entity(id, kt) ==
    [id |-> id, class |-> EntityClass(id), ktimeout |-> kt,
     deregister |-> EntityDeregister(id)]

NoEntity == [id |-> "", class |-> "", ktimeout |-> 0, deregister |-> FALSE]

\* Entity.Validate as the spec states it: non-empty ID, positive timeout
Validate(entity) == entity.id # "" /\ entity.ktimeout > 0

\* what the bus may deliver on the inbound channel
Messages ==
    {[kind |-> "event", entity |-> Entity(id, kt)] :
        id \in Entities, kt \in Timeouts}
      \cup {[kind |-> "event", entity |-> Entity("a1", 0)]}
      \cup {[kind |-> "nilEntity", entity |-> NoEntity]}
      \cup {[kind |-> "nonEvent", entity |-> NoEntity]}

\* GetEventByEntityCheck returns nil
NoEvent == [status |-> -1, entity |-> NoEntity]

NoMsg == [kind |-> "none", entity |-> NoEntity, ts |-> 0]

\* the checks of lines 200-210 alone: entity.Validate (line 212) left out
IsEventWithEntity(msg) == msg.kind = "event"

\* lines 200-215 of processKeepalives: the three checks that drop a message
IsValidKeepalive(msg) ==
    /\ msg.kind # "nonEvent"
    /\ msg.kind # "nilEntity"
    /\ msg.kind = "event"
    /\ Validate(msg.entity)

VARIABLES
    now,          \* time.Now().Unix()
    handlerCount, \* k.handlerCount
    startPc,      \* position of Start
    startErr,     \* what Start returned: "none" (not yet), "nil", or the failing step
    subscription, \* "none", "active", "cancelled"
    recQ,         \* initFromStore: the failing records still to visit
    failing,      \* store: entity -> deadline of its FailingKeepaliveRecord, or NoRecord
    failing0,     \* the failing records the store held when Start was called
    events,       \* store: entity -> the keepalive event (status, entity), or NoEvent
    events0,      \* the keepalive events the store held when Start was called
    entities,     \* store: the entities persisted
    lastSeen,     \* store: entity -> LastSeen of the entity persisted, or 0
    monitors,     \* k.monitors: entity ID -> index into mons
    mons,         \* every Monitor created so far
    mu,           \* k.mu: 0 when free, else the worker holding it
    chan,         \* k.keepaliveChan
    chanClosed,   \* close(k.keepaliveChan) was executed
    undelivered,  \* the messages the bus has still to deliver, in order
    delivered,    \* entity -> KeepaliveTimeout of the last valid keepalive delivered, or 0
    dropped,      \* number of messages logged and dropped (lines 202, 208, 213)
    huRet,        \* entity -> what the last mon.HandleUpdate returned: "none", "nil", "err"
    wpc,          \* position of each worker
    cur,          \* the message each worker is handling
    wmon,         \* the local variable mon of each worker
    wlog,         \* the calls each worker made for the message it is handling
    swPc,         \* position of the sweeper
    swSeen,       \* keys the sweeper's range loop has produced in this sweep
    swKey,        \* the key the sweeper is about to delete
    stopPc,       \* position of Stop
    stopErr,      \* the error of subscription.Cancel() in Stop
    stopSeen,     \* keys Stop's range loop has produced
    stopGo,       \* the goroutines "go monitor.Stop()" not yet run
    errChanClosed,\* close(k.errChan) was executed
    regCount,     \* bus: registration events published on topic event, per entity
    rawLast       \* bus: status of the last keepalive event published on event-raw, per entity

vars == <<now, handlerCount, startPc, startErr, subscription, recQ, failing, failing0, events,
          events0, entities, lastSeen, monitors, mons, mu, chan, chanClosed,
          undelivered, delivered, dropped, huRet, wpc, cur,
          wmon, wlog, swPc, swSeen, swKey, stopPc, stopErr, stopSeen, stopGo,
          errChanClosed, regCount, rawLast>>

startVars == <<startPc, startErr, subscription, recQ>>
storeVars == <<failing, events, entities, lastSeen>>
ghostVars == <<failing0, events0, handlerCount>>
chanVars == <<chan, chanClosed, undelivered, delivered>>
histVars == <<dropped, huRet>>

Workers == 1..handlerCount
workerVars == <<wpc, cur, wmon, wlog>>
sweeperVars == <<swPc, swSeen, swKey>>
stopVars == <<stopPc, stopErr, stopSeen, stopGo, errChanClosed>>
busVars == <<regCount, rawLast>>

\* the keepalive events a store may hold for an entity
StoredEvents(id) ==
    {NoEvent} \cup {[status |-> s, entity |-> Entity(id, 1)] : s \in {0, 1}}

\* every store an earlier run may have left: per entity a failing record or
\* none, and a keepalive event (passing or failing) or none
AllStores ==
    {st \in [failing : [Entities -> {NoRecord} \cup RecordTimes],
             events : [Entities -> UNION {StoredEvents(id) : id \in Entities}]] :
        \A id \in Entities : st.events[id] \in StoredEvents(id)}

\* the stores in which every entity is either unknown or was failing when the
\* earlier run ended (a record with a deadline ahead, a failing event)
RunStores ==
    {st \in AllStores :
        \A id \in Entities :
            \/ st.failing[id] = NoRecord /\ st.events[id] = NoEvent
            \/ st.failing[id] = 3 /\ st.events[id] # NoEvent /\ st.events[id].status = 1}

\* the sequences of n messages of the set msgs
Inboxes(msgs, n) == [1..n -> msgs]

\* the state after New (lines 67-87): a store of the set stores, n workers
\* configured, the bus about to deliver one of the sequences inboxes
InitWith(stores, n, inboxes) ==
    /\ now = 1
    /\ handlerCount = n
    /\ startPc = "new"
    /\ startErr = "none"
    /\ subscription = "none"
    /\ recQ = <<>>
    /\ \E st \in stores : failing = st.failing /\ events = st.events
    /\ failing0 = failing
    /\ events0 = events
    /\ entities = {id \in Entities : events[id] # NoEvent}
    /\ lastSeen = [id \in Entities |-> 0]
    /\ monitors = <<>>
    /\ mons = <<>>
    /\ mu = 0
    /\ chan = <<>>
    /\ chanClosed = FALSE
    /\ undelivered \in inboxes
    /\ delivered = [id \in Entities |-> 0]
    /\ dropped = 0
    /\ huRet = [id \in Entities |-> "none"]
    /\ wpc = [w \in Workers |-> "off"]
    /\ cur = [w \in Workers |-> NoMsg]
    /\ wmon = [w \in Workers |-> 0]
    /\ wlog = [w \in Workers |-> <<>>]
    /\ swPc = "off"
    /\ swSeen = {}
    /\ swKey = None
    /\ stopPc = "idle"
    /\ stopErr = FALSE
    /\ stopSeen = {}
    /\ stopGo = {}
    /\ errChanClosed = FALSE
    /\ regCount = [id \in Entities |-> 0]
    /\ rawLast = [id \in Entities |-> NoStatus]

\* the valid keepalives
Keepalives == {msg \in Messages : IsValidKeepalive(msg)}

\* a message that is dropped, and then keepalives with a timeout of one second
DropInboxes(n) ==
    {<<bad>> \o q : bad \in Messages \ Keepalives,
                    q \in Inboxes({msg \in Keepalives : msg.entity.ktimeout = 1}, n)}

Init ==
    InitWith(RunStores, HandlerCount,
             Inboxes(Messages, MaxMsgs) \cup DropInboxes(MaxMsgs))

\* the worker pool: the keepalives of one entity, the other entity failing or
\* unknown when the earlier run ended
InitPool ==
    InitWith({st \in RunStores : st.failing["a1"] = NoRecord}, PoolHandlerCount,
             Inboxes({msg \in Keepalives : msg.entity.id = "a1"}, PoolMsgs))

\* the sweeper: one worker, one keepalive more than in Init, all keepalives
\* with the same timeout, at most one entity failing when the earlier run ended
InitSweep ==
    InitWith({st \in RunStores : st.failing["a1"] = NoRecord}, HandlerCount,
             Inboxes({msg \in Keepalives : msg.entity.ktimeout = 1}, MaxMsgs + 1))

\* recovery: every store, no message
InitRecovery == InitWith(AllStores, HandlerCount, {<<>>})

(***************************************************************************)
(* The Monitor (package monitor, behind monitor.Interface) and the map.    *)
(***************************************************************************)
\* monitorFactory(entity, nil, t, k, k): a live Monitor with its timer armed
NewMonitor(entity, t) ==
    [entity |-> entity, timeout |-> t, stopped |-> FALSE, pc |-> "armed",
     hfStart |-> 0, hflog |-> <<>>, ret |-> "none"]

MonIds == 1..Len(mons)

\* Monitor.IsStopped
IsStopped(m) == mons[m].stopped

\* Monitor.GetTimeout
GetTimeout(m) == mons[m].timeout

\* Monitor.Stop: disables the timer and marks the monitor stopped; idempotent
StopMonitor(ms, m) == [ms EXCEPT ![m].stopped = TRUE]

\* k.monitors[key] = m
MapPut(map, key, m) ==
    [x \in (DOMAIN map) \cup {key} |-> IF x = key THEN m ELSE map[x]]

\* delete(k.monitors, key)
MapDelete(map, key) == [x \in (DOMAIN map) \ {key} |-> map[x]]

\* the orders in which GetFailingKeepalives may return the records of the store
RecordOrders ==
    LET ids == {id \in Entities : failing[id] # NoRecord}
    IN  {q \in UNION {[1..n -> ids] : n \in {Cardinality(ids)}} :
            \A i, j \in DOMAIN q : i # j => q[i] # q[j]}

(***************************************************************************)
(* Start (lines 96-116) and initFromStore (lines 142-179).                 *)
(***************************************************************************)
\* line 98: k.bus.Subscribe; an error is returned at once
StartSubscribe ==
    /\ startPc = "new"
    /\ \/ /\ startPc' = "failed"
          /\ startErr' = "subscribe"
          /\ UNCHANGED subscription
       \/ /\ startPc' = "init"
          /\ subscription' = "active"
          /\ UNCHANGED startErr
    /\ UNCHANGED <<now, histVars, recQ, storeVars, ghostVars, monitors, mons, mu, chanVars,
                   workerVars, sweeperVars, stopVars, busVars>>

\* line 144: k.store.GetFailingKeepalives
InitGetFailing ==
    /\ startPc = "init"
    /\ \/ /\ startPc' = "cancel"
          /\ startErr' = "recovery"
          /\ UNCHANGED recQ
       \/ /\ startPc' = "loop"
          /\ \E q \in RecordOrders :
                recQ' = [i \in DOMAIN q |-> [id |-> q[i], time |-> failing[q[i]]]]
          /\ UNCHANGED startErr
    /\ UNCHANGED <<now, histVars, subscription, storeVars, ghostVars, monitors, mons, mu,
                   chanVars, workerVars, sweeperVars, stopVars, busVars>>

\* lines 169-173: the timeout of a recovered Monitor, a time.Duration
RecoveryTimeout(time) ==
    LET d == time - now
    IN  IF d < 0 THEN 0 ELSE d

\* only a record without an event is skipped: the status check left out
SkipOnlyMissing(event) == event = NoEvent

\* lines 158-165: the record is skipped when the entity has no keepalive
\* event, or when the event's check status is 0
SkipRecord(event) == event = NoEvent \/ event.status = 0

\* lines 149-176: one pass of the loop over the failing records
InitRecord ==
    /\ startPc = "loop"
    /\ recQ # <<>>
    /\ LET keepalive == Head(recQ)
           event == events[keepalive.id]
       IN  \/ \* line 153: GetEventByEntityCheck failed
              /\ startPc' = "cancel"
              /\ startErr' = "recovery"
              /\ UNCHANGED <<recQ, monitors, mons>>
           \/ \* lines 158-165: no event, or a passing event: skip
              /\ SkipRecord(event)
              /\ recQ' = Tail(recQ)
              /\ UNCHANGED <<startPc, startErr, monitors, mons>>
           \/ \* lines 169-175: recreate the monitor
              /\ ~SkipRecord(event)
              /\ mons' = Append(mons,
                    NewMonitor(event.entity, RecoveryTimeout(keepalive.time)))
              /\ monitors' = MapPut(monitors, keepalive.id, Len(mons) + 1)
              /\ recQ' = Tail(recQ)
              /\ UNCHANGED <<startPc, startErr>>
    /\ UNCHANGED <<now, histVars, subscription, storeVars, ghostVars, mu, chanVars,
                   workerVars, sweeperVars, stopVars, busVars>>

\* line 178: initFromStore returns nil
InitDone ==
    /\ startPc = "loop"
    /\ recQ = <<>>
    /\ startPc' = "startWorkers"
    /\ UNCHANGED <<now, histVars, startErr, subscription, recQ, storeVars, ghostVars,
                   monitors, mons, mu, chanVars, workerVars, sweeperVars, stopVars,
                   busVars>>

\* recovery failed and Start returns the error, the subscription left active
StartReturnsWithoutCancel ==
    /\ startPc = "cancel"
    /\ startPc' = "failed"
    /\ UNCHANGED <<now, histVars, startErr, subscription, recQ, storeVars, ghostVars,
                   monitors, mons, mu, chanVars, workerVars, sweeperVars, stopVars,
                   busVars>>

\* lines 105-108: recovery failed: cancel the subscription, return the error
StartCancel ==
    /\ startPc = "cancel"
    /\ subscription' = "cancelled"
    /\ startPc' = "failed"
    /\ UNCHANGED <<now, histVars, startErr, recQ, storeVars, ghostVars, monitors, mons, mu,
                   chanVars, workerVars, sweeperVars, stopVars, busVars>>

\* lines 181-188: startWorkers launches handlerCount goroutines
StartWorkers ==
    /\ startPc = "startWorkers"
    /\ wpc' = [w \in Workers |-> "recv"]
    /\ startPc' = "startSweeper"
    /\ UNCHANGED <<now, histVars, startErr, subscription, recQ, storeVars, ghostVars,
                   monitors, mons, mu, chanVars, cur, wmon, wlog, sweeperVars,
                   stopVars, busVars>>

\* lines 113-115: startMonitorSweeper launches the sweeper; Start returns nil
StartSweeper ==
    /\ startPc = "startSweeper"
    /\ swPc' = "wait"
    /\ startPc' = "ok"
    /\ startErr' = "nil"
    /\ UNCHANGED <<now, histVars, subscription, recQ, storeVars, ghostVars, monitors, mons,
                   mu, chanVars, workerVars, swSeen, swKey, stopVars, busVars>>

(***************************************************************************)
(* The bus side of the subscription, and the clock.                        *)
(***************************************************************************)
\* Event.Timestamp: the sender stamps the message when it is sent
Stamp(msg) == [kind |-> msg.kind, entity |-> msg.entity, ts |-> now]

\* the bus delivers a message on Receiver(); the send blocks when the buffer is full
Deliver ==
    /\ subscription = "active"
    /\ ~chanClosed
    /\ undelivered # <<>>
    /\ Len(chan) < ChanCap
    /\ chan' = Append(chan, Stamp(Head(undelivered)))
    /\ undelivered' = Tail(undelivered)
    /\ delivered' = IF IsValidKeepalive(Head(undelivered))
                    THEN [delivered EXCEPT ![Head(undelivered).entity.id] =
                                               Head(undelivered).entity.ktimeout]
                    ELSE delivered
    /\ UNCHANGED <<now, histVars, startVars, storeVars, ghostVars, monitors, mons, mu,
                   chanClosed, workerVars, sweeperVars, stopVars, busVars>>

\* a second passes
Tick ==
    /\ now < MaxNow
    /\ now' = now + 1
    /\ UNCHANGED <<histVars, startVars, storeVars, ghostVars, monitors, mons, mu,
                   chanVars, workerVars, sweeperVars, stopVars, busVars>>

(***************************************************************************)
(* processKeepalives (lines 190-241), handleEntityRegistration (243-261)   *)
(* and HandleUpdate (320-337), one worker w.                               *)
(***************************************************************************)
Log(w, what) == [wlog EXCEPT ![w] = Append(@, what)]

\* lines 203, 209, 214, 240: back to the head of the loop; the locals are dead
Continue(w) ==
    /\ wpc' = [wpc EXCEPT ![w] = "recv"]
    /\ cur' = [cur EXCEPT ![w] = NoMsg]
    /\ wmon' = [wmon EXCEPT ![w] = 0]
    /\ wlog' = [wlog EXCEPT ![w] = <<>>]

\* every entity is looked up for registration: the class check left out
AnyClass(entity) == TRUE

\* line 244: only agents are looked up for registration
IsAgent(entity) == entity.class = "agent"

\* line 223: timeout := time.Duration(entity.KeepaliveTimeout) * time.Second
WorkerTimeout(entity) == entity.ktimeout * Second

\* lines 199-215: receive a message; drop it unless it is a valid keepalive
WRecv(w) ==
    /\ wpc[w] = "recv"
    /\ chan # <<>>
    /\ LET msg == Head(chan)
       IN  IF ~IsValidKeepalive(msg)
           THEN /\ Continue(w)
                /\ dropped' = dropped + 1
           ELSE /\ cur' = [cur EXCEPT ![w] = msg]
                /\ wpc' = [wpc EXCEPT ![w] =
                             IF IsAgent(msg.entity) THEN "reg" ELSE "lock"]
                /\ UNCHANGED <<wmon, wlog, dropped>>
    /\ chan' = Tail(chan)
    /\ UNCHANGED <<now, huRet, startVars, storeVars, ghostVars, monitors, mons, mu,
                   chanClosed, undelivered, delivered, sweeperVars, stopVars,
                   busVars>>

\* line 199 and line 191: the channel is closed and drained: wg.Done
WExit(w) ==
    /\ wpc[w] = "recv"
    /\ chan = <<>>
    /\ chanClosed
    /\ wpc' = [wpc EXCEPT ![w] = "done"]
    /\ UNCHANGED <<now, histVars, startVars, storeVars, ghostVars, monitors, mons, mu,
                   chanVars, cur, wmon, wlog, sweeperVars, stopVars, busVars>>

\* lines 249-255: k.store.GetEntityByID
WGetEntity(w) ==
    /\ wpc[w] = "reg"
    /\ \/ /\ wlog' = Log(w, "GetEntityByID:err")
          /\ wpc' = [wpc EXCEPT ![w] = "lock"]
       \/ /\ cur[w].entity.id \in entities
          /\ wlog' = Log(w, "GetEntityByID:found")
          /\ wpc' = [wpc EXCEPT ![w] = "lock"]
       \/ /\ cur[w].entity.id \notin entities
          /\ wlog' = Log(w, "GetEntityByID:nil")
          /\ wpc' = [wpc EXCEPT ![w] = "regpub"]
    /\ UNCHANGED <<now, histVars, startVars, storeVars, ghostVars, monitors, mons, mu,
                   chanVars, cur, wmon, sweeperVars, stopVars, busVars>>

\* lines 256-257: publish the registration event on TopicEvent
WPublishRegistration(w) ==
    /\ wpc[w] = "regpub"
    /\ \/ /\ wlog' = Log(w, "Publish:registration")
          /\ regCount' = [regCount EXCEPT ![cur[w].entity.id] = @ + 1]
       \/ /\ wlog' = Log(w, "Publish:registration:err")
          /\ UNCHANGED regCount
    /\ wpc' = [wpc EXCEPT ![w] = "lock"]
    /\ UNCHANGED <<now, histVars, startVars, storeVars, ghostVars, monitors, mons, mu,
                   chanVars, cur, wmon, sweeperVars, stopVars, rawLast>>

\* lines 221-231 (and 235 when the monitor is kept): under the lock, look the
\* monitor up, install one if there is none or it is stopped, and stop it if
\* its timeout differs
WLock(w) ==
    /\ wpc[w] = "lock"
    /\ mu = 0
    /\ LET entity == cur[w].entity
           ok == entity.id \in DOMAIN monitors
       IN  IF ~ok \/ IsStopped(monitors[entity.id])
           THEN /\ mons' = Append(mons, NewMonitor(entity, WorkerTimeout(entity)))
                /\ monitors' = MapPut(monitors, entity.id, Len(mons) + 1)
                /\ wmon' = [wmon EXCEPT ![w] = Len(mons) + 1]
                /\ wlog' = Log(w, "install")
                /\ wpc' = [wpc EXCEPT ![w] = "update"]
                /\ UNCHANGED mu
           ELSE IF GetTimeout(monitors[entity.id]) # WorkerTimeout(entity)
           THEN /\ mons' = StopMonitor(mons, monitors[entity.id])
                /\ wmon' = [wmon EXCEPT ![w] = monitors[entity.id]]
                /\ wpc' = [wpc EXCEPT ![w] = "replace"]
                /\ mu' = w
                /\ UNCHANGED <<monitors, wlog>>
           ELSE /\ wmon' = [wmon EXCEPT ![w] = monitors[entity.id]]
                /\ wlog' = Log(w, "keep")
                /\ wpc' = [wpc EXCEPT ![w] = "update"]
                /\ UNCHANGED <<mons, monitors, mu>>
    /\ UNCHANGED <<now, histVars, startVars, storeVars, ghostVars, chanVars, cur,
                   sweeperVars, stopVars, busVars>>

\* the monitor with the new timeout is created but not stored in the map
WReplaceNotStored(w) ==
    /\ wpc[w] = "replace"
    /\ mu = w
    /\ mu' = 0
    /\ LET entity == cur[w].entity
       IN  /\ mons' = Append(mons, NewMonitor(entity, WorkerTimeout(entity)))
           /\ wmon' = [wmon EXCEPT ![w] = Len(mons) + 1]
           /\ wlog' = Log(w, "replace")
    /\ wpc' = [wpc EXCEPT ![w] = "update"]
    /\ UNCHANGED <<now, histVars, startVars, storeVars, ghostVars, chanVars, cur,
                   monitors, sweeperVars, stopVars, busVars>>

\* lines 232-235: install the monitor with the new timeout; release the lock
WReplace(w) ==
    /\ wpc[w] = "replace"
    /\ mu = w
    /\ mu' = 0
    /\ LET entity == cur[w].entity
       IN  /\ mons' = Append(mons, NewMonitor(entity, WorkerTimeout(entity)))
           /\ monitors' = MapPut(monitors, entity.id, Len(mons) + 1)
           /\ wmon' = [wmon EXCEPT ![w] = Len(mons) + 1]
           /\ wlog' = Log(w, "replace")
    /\ wpc' = [wpc EXCEPT ![w] = "update"]
    /\ UNCHANGED <<now, histVars, startVars, storeVars, ghostVars, chanVars, cur,
                   sweeperVars, stopVars, busVars>>

\* lines 237-239: what mon.HandleUpdate returned for the entity of worker w
Returned(w, ret) == [huRet EXCEPT ![cur[w].entity.id] = ret]

\* line 237 and line 324: mon.HandleUpdate -> k.HandleUpdate: DeleteFailingKeepalive
WDeleteFailing(w) ==
    /\ wpc[w] = "update"
    /\ \/ /\ failing' = [failing EXCEPT ![cur[w].entity.id] = NoRecord]
          /\ wlog' = Log(w, "DeleteFailingKeepalive")
          /\ wpc' = [wpc EXCEPT ![w] = "hu_upd"]
          /\ UNCHANGED <<cur, wmon, huRet>>
       \/ /\ Continue(w)
          /\ huRet' = Returned(w, "err")
          /\ UNCHANGED failing
    /\ UNCHANGED <<now, dropped, startVars, events, entities, lastSeen, ghostVars,
                   monitors, mons, mu, chanVars, sweeperVars, stopVars, busVars>>

\* entity.LastSeen is left as it was
LastSeenUnset(msg) == 0

\* line 328: entity.LastSeen = e.Timestamp
LastSeen(msg) == msg.ts

\* lines 328-333: entity.LastSeen = e.Timestamp; k.store.UpdateEntity
WUpdateEntity(w) ==
    /\ wpc[w] = "hu_upd"
    /\ \/ /\ entities' = entities \cup {cur[w].entity.id}
          /\ lastSeen' = [lastSeen EXCEPT ![cur[w].entity.id] = LastSeen(cur[w])]
          /\ wlog' = Log(w, "UpdateEntity")
          /\ wpc' = [wpc EXCEPT ![w] = "hu_pub"]
          /\ UNCHANGED <<cur, wmon, huRet>>
       \/ /\ Continue(w)
          /\ huRet' = Returned(w, "err")
          /\ UNCHANGED <<entities, lastSeen>>
    /\ UNCHANGED <<now, dropped, startVars, failing, events, ghostVars, monitors, mons,
                   mu, chanVars, sweeperVars, stopVars, busVars>>

\* lines 334-336: publish the keepalive event, status 0, on TopicEventRaw
WPublishKeepalive(w) ==
    /\ wpc[w] = "hu_pub"
    /\ \/ /\ rawLast' = [rawLast EXCEPT ![cur[w].entity.id] = 0]
          /\ huRet' = Returned(w, "nil")
       \/ /\ huRet' = Returned(w, "err")
          /\ UNCHANGED rawLast
    /\ Continue(w)
    /\ UNCHANGED <<now, dropped, startVars, storeVars, ghostVars, monitors, mons, mu,
                   chanVars, sweeperVars, stopVars, regCount>>

(***************************************************************************)
(* A Monitor's timer and HandleFailure (lines 341-365), one monitor m.     *)
(* The Monitor lives until its timeout fires once: it runs the failure     *)
(* handler and is stopped when the handler returns.                        *)
(***************************************************************************)
HFLog(m, what) == Append(mons[m].hflog, what)

\* the Deregister flag is never honoured
NeverDeregister(entity) == FALSE

\* line 351: if entity.Deregister
ShouldDeregister(entity) == entity.deregister

\* the deadline measured back from now instead of ahead of it
FailingDeadlinePast(entity) == now - entity.ktimeout

\* line 363: timeout := time.Now().Unix() + int64(entity.KeepaliveTimeout)
FailingDeadline(entity) == now + entity.ktimeout

\* the timer of a live monitor fires
TimerFires(m) == mons[m].pc = "armed" /\ ~mons[m].stopped

\* Deregistration.Deregister without error: the Deregistrar deletes the
\* entity, its events and its failing record (and publishes a deregistration
\* event)
Deregistered(id) ==
    /\ entities' = entities \ {id}
    /\ events' = [events EXCEPT ![id] = NoEvent]
    /\ failing' = [failing EXCEPT ![id] = NoRecord]
    /\ lastSeen' = [lastSeen EXCEPT ![id] = 0]

\* lines 341-352: the timer fires, HandleFailure is entered and returns
\* deregisterer.Deregister(entity)
HFDeregister(m) ==
    /\ TimerFires(m)
    /\ ShouldDeregister(mons[m].entity)
    /\ LET id == mons[m].entity.id
       IN  \/ /\ Deregistered(id)
              /\ mons' = [mons EXCEPT ![m].pc = "done", ![m].stopped = TRUE,
                                      ![m].hfStart = now,
                                      ![m].hflog = HFLog(m, "Deregister"),
                                      ![m].ret = "nil"]
           \/ /\ mons' = [mons EXCEPT ![m].pc = "done", ![m].stopped = TRUE,
                                      ![m].hfStart = now,
                                      ![m].hflog = HFLog(m, "Deregister:err"),
                                      ![m].ret = "err"]
              /\ UNCHANGED storeVars
    /\ UNCHANGED <<now, histVars, startVars, ghostVars, monitors, mu, chanVars, workerVars,
                   sweeperVars, stopVars, busVars>>

\* lines 341-360: the timer fires, HandleFailure is entered and publishes the
\* keepalive event, status 1, on TopicEventRaw
HFPublish(m) ==
    /\ TimerFires(m)
    /\ ~ShouldDeregister(mons[m].entity)
    /\ \/ /\ rawLast' = [rawLast EXCEPT ![mons[m].entity.id] = 1]
          /\ mons' = [mons EXCEPT ![m].pc = "hf_ufk", ![m].hfStart = now,
                                  ![m].hflog = HFLog(m, "Publish:keepalive1")]
       \/ /\ mons' = [mons EXCEPT ![m].pc = "done", ![m].stopped = TRUE,
                                  ![m].hfStart = now,
                                  ![m].hflog = HFLog(m, "Publish:keepalive1:err"),
                                  ![m].ret = "err"]
          /\ UNCHANGED rawLast
    /\ UNCHANGED <<now, histVars, startVars, storeVars, ghostVars, monitors, mu, chanVars,
                   workerVars, sweeperVars, stopVars, regCount>>

\* lines 363-364: k.store.UpdateFailingKeepalive(ctx, entity, timeout)
HFUpdateFailing(m) ==
    /\ mons[m].pc = "hf_ufk"
    /\ \/ /\ failing' = [failing EXCEPT ![mons[m].entity.id] =
                                            FailingDeadline(mons[m].entity)]
          /\ mons' = [mons EXCEPT ![m].pc = "done", ![m].stopped = TRUE,
                                  ![m].hflog = HFLog(m, "UpdateFailingKeepalive"),
                                  ![m].ret = "nil"]
       \/ /\ mons' = [mons EXCEPT ![m].pc = "done", ![m].stopped = TRUE,
                                  ![m].hflog = HFLog(m, "UpdateFailingKeepalive:err"),
                                  ![m].ret = "err"]
          /\ UNCHANGED failing
    /\ UNCHANGED <<now, histVars, startVars, events, entities, lastSeen, ghostVars,
                   monitors, mu, chanVars, workerVars, sweeperVars, stopVars, busVars>>

(***************************************************************************)
(* startMonitorSweeper (lines 265-280).                                    *)
(***************************************************************************)
\* line 270: <-ticker.C
SweeperTick ==
    /\ swPc = "wait"
    /\ swPc' = "range"
    /\ swSeen' = {}
    /\ UNCHANGED <<now, histVars, startVars, storeVars, ghostVars, monitors, mons, mu,
                   chanVars, workerVars, swKey, stopVars, busVars>>

\* lines 271-272: the range loop produces an entry, read without the lock
SweeperRange ==
    /\ swPc = "range"
    /\ \/ /\ \E key \in (DOMAIN monitors) \ swSeen :
                /\ swSeen' = swSeen \cup {key}
                /\ IF IsStopped(monitors[key])
                   THEN swPc' = "delete" /\ swKey' = key
                   ELSE UNCHANGED <<swPc, swKey>>
       \/ /\ (DOMAIN monitors) \ swSeen = {}
          /\ swPc' = "wait"
          /\ swSeen' = {}
          /\ UNCHANGED swKey
    /\ UNCHANGED <<now, histVars, startVars, storeVars, ghostVars, monitors, mons, mu,
                   chanVars, workerVars, stopVars, busVars>>

\* lines 273-275: k.mu.Lock(); delete(k.monitors, key); k.mu.Unlock()
SweeperDelete ==
    /\ swPc = "delete"
    /\ mu = 0
    /\ monitors' = MapDelete(monitors, swKey)
    /\ swPc' = "range"
    /\ swKey' = None
    /\ UNCHANGED <<now, histVars, startVars, storeVars, ghostVars, mons, mu, chanVars,
                   workerVars, swSeen, stopVars, busVars>>

(***************************************************************************)
(* Stop (lines 120-129); Start returned nil before it is called.           *)
(***************************************************************************)
\* line 121: err := k.subscription.Cancel()
StopCancel ==
    /\ startPc = "ok"
    /\ stopPc = "idle"
    /\ subscription' = "cancelled"
    /\ stopErr' \in BOOLEAN
    /\ stopPc' = "close"
    /\ UNCHANGED <<now, histVars, startPc, startErr, recQ, storeVars, ghostVars, monitors,
                   mons, mu, chanVars, workerVars, sweeperVars, stopSeen, stopGo,
                   errChanClosed, busVars>>

\* line 122: close(k.keepaliveChan)
StopClose ==
    /\ stopPc = "close"
    /\ chanClosed' = TRUE
    /\ stopPc' = "wait"
    /\ UNCHANGED <<now, histVars, startVars, storeVars, ghostVars, monitors, mons, mu, chan,
                   undelivered, delivered, workerVars, sweeperVars, stopErr, stopSeen, stopGo,
                   errChanClosed, busVars>>

\* Stop goes on to the monitors without waiting for the workers
StopNoWait ==
    /\ stopPc = "wait"
    /\ stopPc' = "range"
    /\ UNCHANGED <<now, histVars, startVars, storeVars, ghostVars, monitors, mons, mu,
                   chanVars, workerVars, sweeperVars, stopErr, stopSeen, stopGo,
                   errChanClosed, busVars>>

\* line 123: k.wg.Wait()
StopWait ==
    /\ stopPc = "wait"
    /\ \A w \in Workers : wpc[w] = "done"
    /\ stopPc' = "range"
    /\ UNCHANGED <<now, histVars, startVars, storeVars, ghostVars, monitors, mons, mu,
                   chanVars, workerVars, sweeperVars, stopErr, stopSeen, stopGo,
                   errChanClosed, busVars>>

\* lines 124-126: for _, monitor := range k.monitors { go monitor.Stop() }
StopRange ==
    /\ stopPc = "range"
    /\ \/ /\ \E key \in (DOMAIN monitors) \ stopSeen :
                /\ stopSeen' = stopSeen \cup {key}
                /\ stopGo' = stopGo \cup {monitors[key]}
          /\ UNCHANGED stopPc
       \/ /\ (DOMAIN monitors) \ stopSeen = {}
          /\ stopPc' = "closeErr"
          /\ UNCHANGED <<stopSeen, stopGo>>
    /\ UNCHANGED <<now, histVars, startVars, storeVars, ghostVars, monitors, mons, mu,
                   chanVars, workerVars, sweeperVars, stopErr, errChanClosed,
                   busVars>>

\* lines 127-128: close(k.errChan); return err
StopReturn ==
    /\ stopPc = "closeErr"
    /\ errChanClosed' = TRUE
    /\ stopPc' = "returned"
    /\ UNCHANGED <<now, histVars, startVars, storeVars, ghostVars, monitors, mons, mu,
                   chanVars, workerVars, sweeperVars, stopErr, stopSeen, stopGo,
                   busVars>>

\* line 125: one of the goroutines "go monitor.Stop()" runs
GoMonitorStop(m) ==
    /\ m \in stopGo
    /\ mons' = StopMonitor(mons, m)
    /\ stopGo' = stopGo \ {m}
    /\ UNCHANGED <<now, histVars, startVars, storeVars, ghostVars, monitors, mu, chanVars,
                   workerVars, sweeperVars, stopPc, stopErr, stopSeen,
                   errChanClosed, busVars>>

(***************************************************************************)
(* The specification.                                                      *)
(***************************************************************************)
Next ==
    \/ StartSubscribe
    \/ InitGetFailing
    \/ InitRecord
    \/ InitDone
    \/ StartCancel
    \/ StartWorkers
    \/ StartSweeper
    \/ Deliver
    \/ Tick
    \/ \E w \in Workers : WRecv(w)
    \/ \E w \in Workers : WExit(w)
    \/ \E w \in Workers : WGetEntity(w)
    \/ \E w \in Workers : WPublishRegistration(w)
    \/ \E w \in Workers : WLock(w)
    \/ \E w \in Workers : WReplace(w)
    \/ \E w \in Workers : WDeleteFailing(w)
    \/ \E w \in Workers : WUpdateEntity(w)
    \/ \E w \in Workers : WPublishKeepalive(w)
    \/ \E m \in MonIds : HFDeregister(m)
    \/ \E m \in MonIds : HFPublish(m)
    \/ \E m \in MonIds : HFUpdateFailing(m)
    \/ SweeperTick
    \/ SweeperRange
    \/ SweeperDelete
    \/ StopCancel
    \/ StopClose
    \/ StopWait
    \/ StopRange
    \/ StopReturn
    \/ \E m \in MonIds : GoMonitorStop(m)

Spec == Init /\ [][Next]_vars

\* Start, the bus, the workers and the monitors
Run ==
    \/ StartSubscribe
    \/ InitGetFailing
    \/ InitRecord
    \/ InitDone
    \/ StartCancel
    \/ StartWorkers
    \/ StartSweeper
    \/ Deliver
    \/ \E w \in Workers : WRecv(w)
    \/ \E w \in Workers : WGetEntity(w)
    \/ \E w \in Workers : WPublishRegistration(w)
    \/ \E w \in Workers : WLock(w)
    \/ \E w \in Workers : WReplace(w)
    \/ \E w \in Workers : WDeleteFailing(w)
    \/ \E w \in Workers : WUpdateEntity(w)
    \/ \E w \in Workers : WPublishKeepalive(w)
    \/ \E m \in MonIds : HFDeregister(m)
    \/ \E m \in MonIds : HFPublish(m)
    \/ \E m \in MonIds : HFUpdateFailing(m)

\* the handlers: one worker, the monitors and the clock
NextRun == Run \/ Tick

SpecRun == Init /\ [][NextRun]_vars

\* the worker pool: several workers and the monitors
SpecPool == InitPool /\ [][Run]_vars

\* the sweeper beside one worker and the monitors
NextSweep == Run \/ SweeperTick \/ SweeperRange \/ SweeperDelete

SpecSweep == InitSweep /\ [][NextSweep]_vars

\* shutdown: one worker, the monitors and Stop
NextStop ==
    \/ Run
    \/ \E w \in Workers : WExit(w)
    \/ StopCancel
    \/ StopClose
    \/ StopWait
    \/ StopRange
    \/ StopReturn
    \/ \E m \in MonIds : GoMonitorStop(m)

SpecStop == Init /\ [][NextStop]_vars

\* Start alone, over every store: recovery, the clock, and the recovered
\* monitors, which may fire while Start is still running
NextRecovery ==
    \/ StartSubscribe
    \/ InitGetFailing
    \/ InitRecord
    \/ InitDone
    \/ StartCancel
    \/ StartWorkers
    \/ StartSweeper
    \/ Tick
    \/ \E m \in MonIds : HFDeregister(m)
    \/ \E m \in MonIds : HFPublish(m)
    \/ \E m \in MonIds : HFUpdateFailing(m)

SpecRecovery == InitRecovery /\ [][NextRecovery]_vars

(***************************************************************************)
(* The properties.                                                         *)
(***************************************************************************)
\* the monitors created for entity id that are not stopped
LiveMonitors(id) == {m \in MonIds : mons[m].entity.id = id /\ ~mons[m].stopped}

\* C1: at every instant there is at most one live (non-stopped) Monitor per
\* entity ID, whether or not the registry still holds it
OneLiveMonitorPerEntity ==
    \A id \in Entities : Cardinality(LiveMonitors(id)) <= 1

\* the messages for entity id that a worker is handling or that wait in the
\* inbound channel
InFlight(id) ==
    \/ \E w \in Workers : cur[w].entity.id = id
    \/ \E i \in DOMAIN chan : chan[i].entity.id = id

\* C2: whenever no keepalive for entity E is in the middle of being processed,
\* the Monitor the registry holds for E has the timeout, in seconds, of the
\* last valid keepalive for E delivered on the inbound channel
TimeoutConvergence ==
    \A id \in Entities :
        (~InFlight(id) /\ delivered[id] # 0 /\ id \in DOMAIN monitors)
            => mons[monitors[id]].timeout = delivered[id] * Second

\* the publishes the monitors of ms made from HandleFailure: the keepalive
\* event, status 1, and the deregistration event of the Deregistrar
MonitorPublishes(ms) ==
    {<<m, i>> \in (DOMAIN ms) \X (1..2) :
        /\ i \in DOMAIN ms[m].hflog
        /\ ms[m].hflog[i] \in {"Publish:keepalive1", "Deregister"}}

\* C3: once Stop has returned, no worker is running and nothing more is
\* published on any topic, the HandleFailure of the monitors included
QuietAfterStop ==
    [][stopPc = "returned" =>
          /\ \A w \in Workers : wpc[w] = "done" /\ wpc'[w] = "done"
          /\ busVars' = busVars
          /\ MonitorPublishes(mons') = MonitorPublishes(mons)]_vars

\* HandleFailure of monitor m returns nil in this step, the failing record written
FailureCompletes(m) == mons[m].pc = "hf_ufk" /\ mons'[m].ret = "nil"

DeregisterOnly ==
    /\ \A m \in MonIds :
          mons[m].entity.deregister =>
              /\ mons[m].pc \in {"armed", "done"}
              /\ \/ mons[m].hflog = <<>> /\ mons[m].ret = "none"
                 \/ mons[m].hflog = <<"Deregister">> /\ mons[m].ret = "nil"
                 \/ mons[m].hflog = <<"Deregister:err">> /\ mons[m].ret = "err"
    /\ \A id \in Entities : EntityDeregister(id) => rawLast[id] # 1

\* C5 happens: a HandleFailure for an entity with Deregister=true has returned
DeregisterReturned ==
    \E m \in MonIds :
        /\ mons[m].entity.deregister
        /\ mons[m].pc = "done"
        /\ mons[m].hflog = <<"Deregister">>

\* C6: Start returns an error when Subscribe fails or when recovery fails;
\* when recovery fails the subscription is cancelled before Start returns;
\* in both cases no worker and no sweeper has been launched
StartFailure ==
    /\ startPc = "failed" =>
          /\ startErr \in {"subscribe", "recovery"}
          /\ startErr = "subscribe" => subscription = "none"
          /\ startErr = "recovery" => subscription = "cancelled"
          /\ \A w \in Workers : wpc[w] = "off"
          /\ swPc = "off"
    /\ startErr = "nil" => startPc = "ok"
    /\ startErr \in {"subscribe", "recovery"} => startPc \in {"cancel", "failed"}

\* C6 happens: recovery failed and Start has returned
RecoveryFailed ==
    /\ startPc = "failed"
    /\ startErr = "recovery"
    /\ subscription = "cancelled"

\* the entities whose failing record is recovered: the record has a keepalive
\* event and the event's status is not 0
Recoverable ==
    {id \in Entities :
        /\ failing0[id] # NoRecord
        /\ events0[id] # NoEvent
        /\ events0[id].status # 0}

\* C7: after a successful Start the registry holds a Monitor for an entity if
\* and only if the store held a failing record for it whose keepalive event
\* exists with a status other than 0
RecoveredRegistry ==
    startPc = "ok" => DOMAIN monitors = Recoverable

\* C7 happens: Start succeeded, one record was recovered, one was skipped
RecoveredOneSkippedOne ==
    /\ startPc = "ok"
    /\ DOMAIN monitors = {"a1"}
    /\ failing0["a2"] # NoRecord

\* C8: the Monitor recovery creates for a failing record has the timeout
\* max(0, Time - now) seconds, in the unit of the timeouts of the worker path
RecoveryTimeoutInSeconds ==
    [][(startPc = "loop" /\ Len(mons') = Len(mons) + 1) =>
          mons'[Len(mons')].timeout =
              (IF Head(recQ).time - now < 0 THEN 0 ELSE Head(recQ).time - now)
                  * Second]_vars

\* the entries of a worker's log
RegistrationPublished(w) ==
    \E i \in DOMAIN wlog[w] :
        wlog[w][i] \in {"Publish:registration", "Publish:registration:err"}

EntityAbsent(w) == \E i \in DOMAIN wlog[w] : wlog[w][i] = "GetEntityByID:nil"

Synchronised(w) ==
    \E i \in DOMAIN wlog[w] : wlog[w][i] \in {"install", "keep", "replace"}

\* what a worker past handleEntityRegistration has done for its keepalive
RegistrationThenMonitor ==
    \A w \in Workers :
        /\ wpc[w] \in {"lock", "replace", "update", "hu_upd", "hu_pub"} =>
              (RegistrationPublished(w) <=>
                  (cur[w].entity.class = "agent" /\ EntityAbsent(w)))
        /\ \A i, j \in DOMAIN wlog[w] :
              (/\ wlog[w][i] \in {"install", "keep", "replace", "DeleteFailingKeepalive",
                                  "UpdateEntity"}
               /\ wlog[w][j] \in {"Publish:registration", "Publish:registration:err"})
                  => j < i
        /\ Synchronised(w) =>
              /\ wmon[w] \in MonIds
              /\ mons[wmon[w]].timeout = cur[w].entity.ktimeout * Second
              /\ mons[wmon[w]].entity = cur[w].entity
        /\ wpc[w] \in {"update", "hu_upd", "hu_pub"} => Synchronised(w)

\* C9: for a valid keepalive a registration event is published if and only
\* if the entity is an agent and GetEntityByID returns none; the registration
\* publish comes first, then the Monitor is installed in the registry with the
\* timeout KeepaliveTimeout seconds, then the keepalive event of status 0 is
\* published on event-raw by HandleUpdate
RegistrationOrder ==
    /\ []RegistrationThenMonitor
    /\ [][/\ \A w \in Workers :
                (~Synchronised(w) /\ Synchronised(w)')
                    => monitors'[cur[w].entity.id] = wmon'[w]
          /\ \A id \in Entities :
                /\ regCount'[id] # regCount[id]
                      => \E w \in Workers :
                            wpc[w] = "regpub" /\ cur[w].entity.id = id
                /\ (rawLast'[id] = 0 /\ rawLast[id] # 0)
                      => \E w \in Workers :
                            wpc[w] = "hu_pub" /\ cur[w].entity.id = id]_vars

\* C9 happens: a worker published the registration, installed the Monitor and
\* is about to publish the keepalive event
RegisteredAndInstalled ==
    \E w \in Workers :
        /\ wpc[w] = "hu_pub"
        /\ wlog[w] = <<"GetEntityByID:nil", "Publish:registration", "install",
                       "DeleteFailingKeepalive", "UpdateEntity">>
        /\ regCount[cur[w].entity.id] = 1

\* a message that is not an Event, an Event without an entity, or an Event
\* whose entity fails validation
Invalid(msg) ==
    \/ msg.kind = "nonEvent"
    \/ msg.kind = "nilEntity"
    \/ msg.entity.id = ""
    \/ msg.entity.ktimeout <= 0

\* C10: an invalid message is dropped: it is logged, it installs no Monitor,
\* changes no registry entry, makes no store call and publishes nothing; the
\* worker goes on to the next message, and terminates only when the inbound
\* channel is closed and drained
InvalidDropped ==
    [][/\ (chan # <<>> /\ chan' = Tail(chan) /\ Invalid(Head(chan))) =>
            /\ dropped' = dropped + 1
            /\ UNCHANGED <<wpc, cur, wmon, wlog, monitors, mons, storeVars, busVars>>
       /\ \A w \in Workers :
            (wpc[w] # "done" /\ wpc'[w] = "done") => (chanClosed /\ chan = <<>>)]_vars

\* C10 happens: a message was dropped and the worker has handled the
\* keepalive that followed it
DroppedThenProcessed ==
    \E w \in Workers :
        /\ dropped = 1
        /\ wpc[w] = "hu_pub"
        /\ Synchronised(w)

\* the registry entries of the entities other than id are the same after the step
OthersUnchanged(id) ==
    \A x \in Entities \ {id} :
        /\ x \in DOMAIN monitors <=> x \in DOMAIN monitors'
        /\ x \in DOMAIN monitors => monitors'[x] = monitors[x]

\* the step creates one live Monitor for entity e with timeout t, stores it
\* under e.id, and stops no Monitor
FreshInstalled(e, t) ==
    /\ Len(mons') = Len(mons) + 1
    /\ mons'[Len(mons')].entity = e
    /\ mons'[Len(mons')].timeout = t
    /\ ~mons'[Len(mons')].stopped
    /\ e.id \in DOMAIN monitors'
    /\ monitors'[e.id] = Len(mons')
    /\ \A m \in MonIds : mons'[m] = mons[m]

\* C11: the synchronisation of the registry for a valid event of entity E
\* with timeout T, under the registry lock: no entry or a stopped Monitor: a
\* new Monitor with timeout T is installed; a live Monitor with another
\* timeout: it is stopped and a fresh Monitor with timeout T replaces it; a
\* live Monitor with timeout T: nothing is created, stopped or changed; the
\* entries of the other entities are unchanged in every case
MonitorSynchronisation ==
    [][\A w \in Workers :
          LET e == cur[w].entity
              t == e.ktimeout * Second
          IN  /\ (wpc[w] = "lock" /\ wpc'[w] # "lock") =>
                    /\ mu = 0
                    /\ OthersUnchanged(e.id)
                    /\ IF e.id \notin DOMAIN monitors
                       THEN FreshInstalled(e, t) /\ mu' = 0
                       ELSE IF mons[monitors[e.id]].stopped
                       THEN FreshInstalled(e, t) /\ mu' = 0
                       ELSE IF mons[monitors[e.id]].timeout # t
                       THEN /\ mons'[monitors[e.id]].stopped
                            /\ Len(mons') = Len(mons)
                            /\ monitors' = monitors
                            /\ wpc'[w] = "replace"
                            /\ mu' = w
                       ELSE /\ mons' = mons
                            /\ monitors' = monitors
                            /\ mu' = 0
              /\ (wpc[w] = "replace" /\ wpc'[w] # "replace") =>
                    /\ mu = w
                    /\ mons[monitors[e.id]].stopped
                    /\ OthersUnchanged(e.id)
                    /\ FreshInstalled(e, t)
                    /\ mu' = 0]_vars

\* C11 happens: a worker found a live Monitor with another timeout, stopped
\* it and installed a fresh one in its place
ReplacedUnderLock ==
    \E w \in Workers, m \in MonIds :
        /\ wpc[w] = "update"
        /\ wlog[w] # <<>>
        /\ wlog[w][Len(wlog[w])] = "replace"
        /\ monitors[cur[w].entity.id] = wmon[w]
        /\ m # wmon[w]
        /\ mons[m].entity.id = cur[w].entity.id
        /\ mons[m].stopped
        /\ mons[m].hflog = <<>>
        /\ mons[m].timeout \in {Second, 2 * Second}

\* C12: HandleUpdate calls DeleteFailingKeepalive, then UpdateEntity with
\* LastSeen set to the event's Timestamp, then publishes the keepalive event
\* of status 0 on event-raw; when a store call fails its error is returned and
\* nothing is published, and when DeleteFailingKeepalive fails the entity is
\* not persisted
HandleUpdateOrder ==
    [][/\ \A w \in Workers :
            LET id == cur[w].entity.id
            IN  /\ (wpc[w] = "update" /\ wpc'[w] # "update") =>
                      /\ entities' = entities
                      /\ lastSeen' = lastSeen
                      /\ busVars' = busVars
                      /\ \/ /\ wpc'[w] = "hu_upd"
                            /\ failing'[id] = NoRecord
                            /\ huRet' = huRet
                         \/ /\ wpc'[w] = "recv"
                            /\ failing' = failing
                            /\ huRet'[id] = "err"
                /\ (wpc[w] = "hu_upd" /\ wpc'[w] # "hu_upd") =>
                      /\ failing' = failing
                      /\ busVars' = busVars
                      /\ \/ /\ wpc'[w] = "hu_pub"
                            /\ id \in entities'
                            /\ lastSeen'[id] = cur[w].ts
                            /\ huRet' = huRet
                         \/ /\ wpc'[w] = "recv"
                            /\ entities' = entities
                            /\ lastSeen' = lastSeen
                            /\ huRet'[id] = "err"
                /\ (wpc[w] = "hu_pub" /\ wpc'[w] # "hu_pub") =>
                      /\ storeVars' = storeVars
                      /\ regCount' = regCount
                      /\ wpc'[w] = "recv"
                      /\ \/ rawLast' = [rawLast EXCEPT ![id] = 0] /\ huRet'[id] = "nil"
                         \/ rawLast' = rawLast /\ huRet'[id] = "err"
       /\ \A id \in Entities :
            (rawLast'[id] = 0 /\ rawLast[id] # 0) =>
                \E w \in Workers :
                    /\ wpc[w] = "hu_pub"
                    /\ cur[w].entity.id = id]_vars

\* C12 happens: a HandleUpdate has returned nil for an entity that had a
\* failing record, having stored the Timestamp of an event sent a second ago
UpdatedAndPublished ==
    /\ huRet["a1"] = "nil"
    /\ rawLast["a1"] = 0
    /\ failing0["a1"] # NoRecord
    /\ failing["a1"] = NoRecord
    /\ lastSeen["a1"] = 1
    /\ now = 2

\* C13: HandleFailure for an entity with Deregister=false publishes one
\* keepalive event of status 1 on event-raw and then writes the failing
\* record with the deadline now + KeepaliveTimeout: every call that publishes
\* the event also persists the record
PublishedThenPersisted ==
    [][\A m \in MonIds :
          (mons[m].pc = "hf_ufk" /\ mons'[m].pc # "hf_ufk") =>
              /\ mons[m].hflog = <<"Publish:keepalive1">>
              /\ rawLast' = rawLast
              /\ mons'[m].ret = "nil"
              /\ failing'[mons[m].entity.id] = now + mons[m].entity.ktimeout]_vars

\* C14: the sweeper removes a registry entry only if the Monitor held under
\* the key is stopped at the moment of the deletion: it never deletes the
\* entry of a live Monitor a worker installed after the sweeper saw the
\* Monitor before it stopped
SweeperDeletesOnlyStopped ==
    [][(swPc = "delete" /\ swPc' # "delete") =>
          /\ swKey \in DOMAIN monitors
          /\ mons[monitors[swKey]].stopped
          /\ monitors' = MapDelete(monitors, swKey)]_vars

\* a goroutine is iterating over k.monitors without holding k.mu: the range
\* loop of the sweeper (line 271) or of Stop (line 124)
IteratingUnlocked == swPc = "range" \/ stopPc = "range"

\* C15: every mutation of the registry map, and every read that precedes a
\* write, is done under the registry lock: the map is never written while a
\* goroutine reads or iterates it without the lock, and never read without
\* the lock while a worker is inside its critical section
RegistryUnderLock ==
    [][(monitors' # monitors \/ mu # 0 \/ mu' # 0) =>
          (~IteratingUnlocked /\ ~IteratingUnlocked')]_vars

\* C16: every HandleUpdate a worker dispatches after releasing the registry
\* lock goes to a Monitor that is not stopped at that moment and is the one
\* the registry holds for the entity: no worker dispatches on a Monitor that
\* another worker has stopped and replaced (a Monitor whose own timeout has
\* fired since the lock was released is left aside)
DispatchToInstalledMonitor ==
    [][\A w \in Workers :
          (wpc[w] = "update" /\ wpc'[w] # "update") =>
              \/ mons[wmon[w]].hflog # <<>>
              \/ /\ ~mons[wmon[w]].stopped
                 /\ cur[w].entity.id \in DOMAIN monitors
                 /\ monitors[cur[w].entity.id] = wmon[w]]_vars

\* what holds at each position of Stop
StopSteps ==
    /\ stopPc # "idle" => subscription = "cancelled"
    /\ chanClosed <=> stopPc \in {"wait", "range", "closeErr", "returned"}
    /\ \A w \in Workers : wpc[w] = "done" => (chanClosed /\ chan = <<>>)
    /\ stopPc \in {"range", "closeErr", "returned"} =>
          /\ chan = <<>>
          /\ \A w \in Workers : wpc[w] = "done" /\ cur[w] = NoMsg
    /\ (stopSeen # {} \/ stopGo # {}) => stopPc \in {"range", "closeErr", "returned"}
    /\ stopPc \in {"closeErr", "returned"} =>
          /\ stopSeen = DOMAIN monitors
          /\ \A key \in DOMAIN monitors :
                monitors[key] \in stopGo \/ mons[monitors[key]].stopped
    /\ errChanClosed <=> stopPc = "returned"

\* C17: Stop cancels the subscription, closes the inbound channel, waits
\* until every worker has exited (each having processed the events still
\* buffered), dispatches Stop on every Monitor of the registry, closes the
\* error channel, and only then returns the error of the cancellation
StopOrder ==
    /\ []StopSteps
    /\ [][/\ stopPc # "idle" => stopErr' = stopErr
          /\ stopPc' # stopPc =>
                <<stopPc, stopPc'>> \in {<<"idle", "close">>, <<"close", "wait">>,
                                         <<"wait", "range">>, <<"range", "closeErr">>,
                                         <<"closeErr", "returned">>}]_vars

\* C17 happens: Stop has returned the error of the cancellation, after a
\* worker processed a keepalive and with the Stop of a Monitor dispatched
\* and not yet run
StopReturnedError ==
    /\ stopPc = "returned"
    /\ stopErr
    /\ stopGo # {}
    /\ \E id \in Entities : huRet[id] = "nil"

\* C18: when Start has returned an error the subscription is not active and
\* the registry holds no live Monitor created by the recovery that was
\* aborted, so that no Monitor calls HandleFailure afterwards
NoMonitorAfterFailedStart ==
    startPc = "failed" =>
        /\ subscription # "active"
        /\ \A key \in DOMAIN monitors : mons[monitors[key]].stopped

\* worker w has published a registration event for the keepalive it is handling
Registered(w) ==
    \E i \in DOMAIN wlog[w] : wlog[w][i] = "Publish:registration"

\* C19: for an agent that is absent from the store at most one registration
\* event is published, also when several keepalives of the agent are handled
\* by different workers at the same time: no two workers publish a
\* registration for the same entity for the keepalives they are handling
OneRegistrationPerAbsentAgent ==
    \A w, v \in Workers :
        (w # v /\ cur[w].entity.id = cur[v].entity.id /\ Registered(w))
            => ~Registered(v)

\* no HandleUpdate and no HandleFailure for entity id is running
Quiescent(id) ==
    /\ \A w \in Workers : cur[w].entity.id # id
    /\ \A m \in MonIds : mons[m].entity.id = id => mons[m].pc # "hf_ufk"

\* a HandleUpdate and a HandleFailure for entity id have completed, and every
\* one that completed did so without error
CompletedWithoutError(id) ==
    /\ huRet[id] = "nil"
    /\ \E m \in MonIds : mons[m].entity.id = id /\ mons[m].ret = "nil"
    /\ \A m \in MonIds : mons[m].entity.id = id => mons[m].ret # "err"

\* C20: when a HandleUpdate and a HandleFailure (Deregister=false) for the
\* same entity have run, also concurrently, and completed without error, the
\* store and the bus agree: the entity has a failing record if and only if the
\* last keepalive event published for it on event-raw has status 1
StoreAgreesWithBus ==
    \A id \in Entities :
        (~EntityDeregister(id) /\ Quiescent(id) /\ CompletedWithoutError(id))
            => (failing[id] # NoRecord <=> rawLast[id] = 1)

====
